---------------------------- MODULE Spec2Model ----------------------------
(***************************************************************************)
(* starling-webhook: an HTTP service that receives Starling Bank webhook   *)
(* notifications, verifies the X-Hook-Signature header and republishes the *)
(* raw body on a Redis pub/sub channel.                                    *)
(*                                                                         *)
(* The repository holds two main programs that differ in verifySignature   *)
(* (and in what main does before it registers its handlers):               *)
(*   build = "rsa"   RSA PKCS#1 v1.5 over SHA-256, key parsed at startup   *)
(*                   by initialiseKey   (src/main_test.go lines 205-466)   *)
(*   build = "hmac"  HMAC-SHA512 with the secret as the key                *)
(*                                      (src/main_test.go lines 468-685)   *)
(*                                                                         *)
(* Byte strings are TLA+ strings.  The cryptographic and encoding library  *)
(* functions are modelled symbolically (perfect cryptography): a digest,   *)
(* a MAC, a signature or an encoding is the string that names its inputs,  *)
(* so two of them are equal exactly when they were computed from the same  *)
(* inputs, and a decoder is the inverse of its encoder on the encoder's    *)
(* image and fails elsewhere.                                              *)
(***************************************************************************)
EXTENDS Naturals, Sequences, FiniteSets, Bags, TLC

VARIABLES
  build,        \* which of the two main programs runs
  env,          \* the process environment (os.Getenv)
  mainPc,       \* position of main
  fatal,        \* the message of the log.Fatalf that ended the process, or ""
  config,       \* *Config returned by loadConfig
  redisClient,  \* Server.redisClient: "none" | "open" | "closed"
  publicKey,    \* Server.publicKey (rsa build); NilKey when unset
  registered,   \* http.HandleFunc has registered the handlers
  warnings,     \* "WEBHOOK_SECRET not set" warnings logged by loadConfig
  inflight,     \* bag of the requests whose handler goroutine is running
  call          \* the last direct call of verifySignature (unit level)

vars == <<build, env, mainPc, fatal, config, redisClient, publicKey, registered,
          warnings, inflight, call>>

-----------------------------------------------------------------------------
(* Bounds of the model *)

\* handler goroutines that may run at the same time
MaxInFlight == 2

(* HTTP status codes written by the handlers *)
StatusOK == 200
StatusBadRequest == 400
StatusUnauthorized == 401
StatusMethodNotAllowed == 405
StatusInternalServerError == 500
StatusServiceUnavailable == 503

(* Timeouts of the contexts handed to the bus client, in seconds *)
\* context.Background(): no deadline
NoDeadline == 0
\* context.WithTimeout(context.Background(), 2*time.Second) in handleHealth
HealthPingTimeout == 2

-----------------------------------------------------------------------------
(* Library functions: encoding/base64, crypto/hmac, crypto/sha512,         *)
(* crypto/sha256, crypto/rsa, crypto/x509                                  *)

Builds == {"hmac", "rsa"}

NilKey == "<nil>"
KeyIds == {"k1", "k2"}
KeyKinds == {"rsa", "ec"}

\* x509.MarshalPKIXPublicKey: the DER blob of a public key (what the
\* operator base64-encodes into WEBHOOK_SECRET)
MarshalPKIXPublicKey(kind, id) == "pkix<" \o kind \o ":" \o id \o ">"

\* hmac.New(sha512.New, key); mac.Write(payload); mac.Sum(nil)
HmacSha512(key, payload) == "hmac-sha512<" \o key \o "|" \o payload \o ">"

\* sha256.Sum256(payload)
Sha256(payload) == "sha256<" \o payload \o ">"

\* rsa.SignPKCS1v15 by the holder of the private key of `id` (the sender)
SignPKCS1v15(id, digest) == "rsa-sig<" \o id \o "|" \o digest \o ">"

\* base64.StdEncoding.EncodeToString
Base64Encode(bytes) == IF bytes = "" THEN "" ELSE "b64<" \o bytes \o ">"

(* Request bodies (io.ReadAll results) *)
BodyTest == "{\"eventType\":\"TEST\"}"
BodyPing == "{\"timestamp\":\"2023-06-17T10:43:17.892Z\",\"eventType\":\"PING\"}"
BodyInvalidJSON == "invalid json"
BodyEmpty == ""
Bodies == {BodyTest, BodyPing, BodyInvalidJSON, BodyEmpty}
HmacKeys == {"test-secret", "other-secret"}

\* every byte string that some party of the model base64-encodes
Blobs ==
  {""}
  \cup {MarshalPKIXPublicKey(k, i) : k \in KeyKinds, i \in KeyIds}
  \cup {"not-der"}
  \cup {HmacSha512(k, p) : k \in HmacKeys, p \in Bodies}
  \cup {SignPKCS1v15(i, Sha256(p)) : i \in KeyIds, p \in Bodies}

\* base64.StdEncoding.DecodeString: the inverse of EncodeToString on its
\* image, an error on any other string ("invalid-signature" and
\* "test-secret" hold '-', which is not in the standard alphabet)
Base64Decode(s) ==
  IF \E b \in Blobs : Base64Encode(b) = s
  THEN [err |-> FALSE, bytes |-> CHOOSE b \in Blobs : Base64Encode(b) = s]
  ELSE [err |-> TRUE, bytes |-> ""]

\* x509.ParsePKIXPublicKey: the inverse of MarshalPKIXPublicKey, an error on
\* anything that is not a DER-encoded key (the empty blob included)
ParsePKIXPublicKey(der) ==
  IF \E k \in KeyKinds, i \in KeyIds : MarshalPKIXPublicKey(k, i) = der
  THEN LET kk == CHOOSE k \in KeyKinds :
                   \E i \in KeyIds : MarshalPKIXPublicKey(k, i) = der
           ii == CHOOSE i \in KeyIds : MarshalPKIXPublicKey(kk, i) = der
       IN [err |-> FALSE, kind |-> kk, id |-> ii]
  ELSE [err |-> TRUE, kind |-> "", id |-> ""]

\* hmac.Equal(a, b), by subtle.ConstantTimeCompare: true exactly when a
\* and b have the same length and no byte differs (the timing is not
\* modelled)
HmacEqual(a, b) == a = b

\* rsa.VerifyPKCS1v15(pub, crypto.SHA256, hashed, sig): "panic" on a nil
\* key (it dereferences pub), otherwise nil exactly when sig is the
\* signature of hashed under pub's private key
VerifyPKCS1v15(pub, hashed, sig) ==
  IF pub = NilKey THEN "panic"
  ELSE IF sig = SignPKCS1v15(pub, hashed) THEN "nil" ELSE "err"


-----------------------------------------------------------------------------
(* encoding/json on the WebhookEvent struct *)

ZeroEvent ==
  [EventType |-> "", Timestamp |-> "", Content |-> "",
   AccountHolderUID |-> "", EventID |-> ""]

\* json.Unmarshal(body, &event): the decoded struct, or an error for a body
\* that is not JSON (a syntax error; "unexpected end of JSON input" for the
\* empty body).  Absent fields keep their zero value.
Unmarshal(body) ==
  CASE body = BodyTest ->
         [err |-> FALSE, event |-> [ZeroEvent EXCEPT !.EventType = "TEST"]]
    [] body = BodyPing ->
         [err |-> FALSE,
          event |-> [ZeroEvent EXCEPT !.EventType = "PING",
                                      !.Timestamp = "2023-06-17T10:43:17.892Z"]]
    [] OTHER -> [err |-> TRUE, event |-> ZeroEvent]

\* json.Marshal(event): fields in struct order; eventType, timestamp and
\* content are always written (a nil json.RawMessage as null), the two
\* omitempty fields only when non-empty
Marshal(event) ==
  "{\"eventType\":\"" \o event.EventType \o "\",\"timestamp\":\""
    \o event.Timestamp \o "\",\"content\":"
    \o (IF event.Content = "" THEN "null" ELSE event.Content)
    \o (IF event.AccountHolderUID = "" THEN ""
        ELSE ",\"accountHolderUid\":\"" \o event.AccountHolderUID \o "\"")
    \o (IF event.EventID = "" THEN ""
        ELSE ",\"eventId\":\"" \o event.EventID \o "\"")
    \o "}"

-----------------------------------------------------------------------------
(* Configuration *)

\* a variable that is not in the environment
Unset == "<unset>"

\* values WEBHOOK_SECRET may hold in the environment ("" is unset or empty)
SecretRsaKey == Base64Encode(MarshalPKIXPublicKey("rsa", "k1"))
SecretEcKey == Base64Encode(MarshalPKIXPublicKey("ec", "k2"))
SecretBadDer == Base64Encode("not-der")
EnvSecrets == {"", "test-secret", SecretRsaKey, SecretEcKey, SecretBadDer}
\* values REDIS_CHANNEL may hold in the environment
EnvChannels == {"", "test"}
\* the environments the server is run in: PORT and REDIS_ADDR, which no
\* handler reads, are left unset
Envs == [PORT : {Unset}, REDIS_ADDR : {Unset},
         REDIS_CHANNEL : EnvChannels, WEBHOOK_SECRET : EnvSecrets]

\* the environments loadConfig is examined in: every variable unset, set
\* to the empty string, or set to a value
ConfigEnvs == [PORT : {Unset, "", "9090"},
               REDIS_ADDR : {Unset, "", "redis:6380"},
               REDIS_CHANNEL : {Unset} \cup EnvChannels,
               WEBHOOK_SECRET : {Unset, "", "test-secret"}]

\* os.Getenv(key): the value, empty for a variable that is not set
Getenv(e, key) == IF e[key] = Unset THEN "" ELSE e[key]

\* getEnv(key, defaultValue): os.Getenv(key) unless it is empty
\* (faulty variant: the value of the environment is returned as it is)
getEnvNoDefault(e, key, defaultValue) == Getenv(e, key)
getEnv(e, key, defaultValue) ==
  LET value == Getenv(e, key)
  IN IF value # "" THEN value ELSE defaultValue

NoConfig == [Port |-> "", RedisAddr |-> "", RedisChannel |-> "", WebhookSecret |-> ""]

\* the Config built by loadConfig (RedisPassword, which only the rsa build
\* has and only redis.NewClient reads, is left out)
loadConfig(e) ==
  [Port |-> getEnv(e, "PORT", "8080"),
   RedisAddr |-> getEnv(e, "REDIS_ADDR", "localhost:6379"),
   RedisChannel |-> getEnv(e, "REDIS_CHANNEL", "starling_events"),
   WebhookSecret |-> getEnv(e, "WEBHOOK_SECRET", "")]

-----------------------------------------------------------------------------
(* Signature verifier *)

\* initialiseKey of the rsa build: the error it returns ("" for nil) and the
\* key it stores in s.publicKey
\* (faulty variant: the type assertion to *rsa.PublicKey is not checked)
initialiseKeyIgnoringKind(secret) ==
  LET d == Base64Decode(secret)
      p == ParsePKIXPublicKey(d.bytes)
  IN IF d.err \/ p.err THEN [err |-> "bad key", key |-> NilKey]
     ELSE [err |-> "", key |-> IF p.kind = "rsa" THEN p.id ELSE NilKey]
initialiseKey(secret) ==
  LET d == Base64Decode(secret)
      p == ParsePKIXPublicKey(d.bytes)
  IN IF d.err THEN [err |-> "illegal base64 data", key |-> NilKey]
     ELSE IF p.err THEN [err |-> "x509: failed to parse public key", key |-> NilKey]
     ELSE IF p.kind # "rsa" THEN [err |-> "not an RSA public key", key |-> NilKey]
     ELSE [err |-> "", key |-> p.id]

\* verifySignature of the hmac build.  result: "true" | "false";
\* keyUsed: the secret was used as a key; logged: a log line was written
\* (faulty variant: no early return on an empty secret)
verifySignatureHmacNoBypass(secret, payload, signature) ==
  [result |-> IF HmacEqual(signature, Base64Encode(HmacSha512(secret, payload)))
              THEN "true" ELSE "false",
   keyUsed |-> TRUE, logged |-> FALSE]
\* (faulty variant: the payload is not written into the MAC)
verifySignatureHmacNoPayload(secret, payload, signature) ==
  IF secret = ""
  THEN [result |-> "true", keyUsed |-> FALSE, logged |-> TRUE]
  ELSE [result |-> IF HmacEqual(signature, Base64Encode(HmacSha512(secret, "")))
                   THEN "true" ELSE "false",
        keyUsed |-> TRUE, logged |-> FALSE]
verifySignatureHmac(secret, payload, signature) ==
  IF secret = ""
  THEN [result |-> "true", keyUsed |-> FALSE, logged |-> TRUE]
  ELSE LET expectedMAC == HmacSha512(secret, payload)
           expectedSignature == Base64Encode(expectedMAC)
       IN [result |-> IF HmacEqual(signature, expectedSignature)
                      THEN "true" ELSE "false",
           keyUsed |-> TRUE, logged |-> FALSE]

\* verifySignature of the rsa build.  result: "true" | "false" | "panic"
verifySignatureRsa(secret, pub, payload, signature) ==
  IF secret = ""
  THEN [result |-> "true", keyUsed |-> FALSE, logged |-> FALSE]
  ELSE LET sig == Base64Decode(signature)
       IN IF sig.err
          THEN [result |-> "false", keyUsed |-> FALSE, logged |-> FALSE]
          ELSE LET hash == Sha256(payload)
                   e == VerifyPKCS1v15(pub, hash, sig.bytes)
               IN [result |-> CASE e = "nil" -> "true"
                                [] e = "err" -> "false"
                                [] OTHER -> "panic",
                   keyUsed |-> TRUE, logged |-> FALSE]

\* s.verifySignature(payload, signature) of the running build
\* (faulty variant: a missing signature is let through)
verifySignatureEmptyAccepted(b, secret, pub, payload, signature) ==
  IF signature = ""
  THEN [result |-> "true", keyUsed |-> FALSE, logged |-> FALSE]
  ELSE IF b = "hmac" THEN verifySignatureHmac(secret, payload, signature)
       ELSE verifySignatureRsa(secret, pub, payload, signature)
verifySignature(b, secret, pub, payload, signature) ==
  IF b = "hmac" THEN verifySignatureHmac(secret, payload, signature)
  ELSE verifySignatureRsa(secret, pub, payload, signature)

-----------------------------------------------------------------------------
(* State *)

\* X-Hook-Signature values a client may send to the running build: none,
\* text that is not base64, and signatures made by a sender (over one of
\* two bodies, under one of two keys)
HmacSignatures ==
  {Base64Encode(HmacSha512("test-secret", BodyTest)),
   Base64Encode(HmacSha512("test-secret", BodyInvalidJSON)),
   Base64Encode(HmacSha512("other-secret", BodyTest))}
RsaSignatures ==
  {Base64Encode(SignPKCS1v15("k1", Sha256(BodyTest))),
   Base64Encode(SignPKCS1v15("k1", Sha256(BodyInvalidJSON))),
   Base64Encode(SignPKCS1v15("k2", Sha256(BodyTest)))}
Signatures(b) ==
  {"", "invalid-signature"}
  \cup (IF b = "hmac" THEN HmacSignatures ELSE RsaSignatures)
AllSignatures == Signatures("hmac") \cup Signatures("rsa")

Methods == {"GET", "POST"}

\* a request as its handler goroutine sees it.  status 0: no response
\* written yet.
\* path: the handler that runs; deadline: the timeout of the context of
\* the bus call the handler waits in; logged: verifySignature wrote a
\* log line; ping: the answer of the health ping.
NewRequest(method, sig) ==
  [path |-> "/webhook", method |-> method, sig |-> sig, pc |-> "start",
   read |-> "none", body |-> "",
   verified |-> "none", logged |-> FALSE, decoded |-> "none",
   pubCalls |-> 0, pubChannel |-> "", pubPayload |-> "", pubResult |-> "none",
   deadline |-> NoDeadline, ping |-> "none",
   status |-> 0, respBody |-> ""]

NoCall == [made |-> FALSE, payload |-> "", signature |-> "",
           out |-> [result |-> "none", keyUsed |-> FALSE, logged |-> FALSE]]

\* the requests in the hands of handleWebhook and of handleHealth
Requests == {r \in BagToSet(inflight) : r.path = "/webhook"}
HealthRequests == {r \in BagToSet(inflight) : r.path = "/health"}
Replace(r, r2) == (inflight (-) SetToBag({r})) (+) SetToBag({r2})

\* the process is alive (neither log.Fatalf nor a return from main)
Alive == mainPc \in {"serving", "shutdown", "stopped", "returned"}

Init ==
  /\ build \in Builds
  /\ env \in Envs
  /\ mainPc = "loadConfig"
  /\ fatal = ""
  /\ config = NoConfig
  /\ redisClient = "none"
  /\ publicKey = NilKey
  /\ registered = FALSE
  /\ warnings = 0
  /\ inflight = EmptyBag
  /\ call = NoCall

-----------------------------------------------------------------------------
(* main *)

\* config := loadConfig()
LoadConfig ==
  /\ mainPc = "loadConfig"
  /\ config' = loadConfig(env)
  /\ warnings' = warnings + (IF loadConfig(env).WebhookSecret = "" THEN 1 ELSE 0)
  /\ mainPc' = "NewServer"
  /\ UNCHANGED <<build, env, fatal, redisClient, publicKey, registered, inflight, call>>

\* what main does after NewServer succeeded: the rsa build initialises the
\* key, the hmac build goes on to register its handlers
afterNewServer(b) == IF b = "rsa" THEN "initialiseKey" ELSE "register"

\* NewServer(config): the client is created and pinged under a 5 s
\* timeout; pingOk is false when the ping failed or the timeout expired.
\* client: the bus client of the Server returned ("none": no Server);
\* err: the error returned ("" for nil)
\* (faulty variant: the error of the ping is not acted on)
newServerWithoutPingCheck(pingOk) ==
  [client |-> IF pingOk THEN "open" ELSE "unverified", err |-> ""]
newServer(pingOk) ==
  IF ~pingOk
  THEN [client |-> "none", err |-> "failed to connect to Redis"]
  ELSE [client |-> "open", err |-> ""]

\* server, err := NewServer(config); if err != nil { log.Fatalf(...) }
NewServer ==
  /\ mainPc = "NewServer"
  /\ \E pingOk \in BOOLEAN :
       LET s == newServer(pingOk)
       IN /\ redisClient' = s.client
          /\ IF s.err = ""
             THEN /\ mainPc' = afterNewServer(build)
                  /\ UNCHANGED fatal
             ELSE /\ mainPc' = "fatal"
                  /\ fatal' = "Failed to create server"
  /\ UNCHANGED <<build, env, config, publicKey, registered, warnings, inflight, call>>

\* if err := server.initialiseKey(); err != nil { log.Fatalf(...) }
InitialiseKey ==
  /\ mainPc = "initialiseKey"
  /\ LET r == initialiseKey(config.WebhookSecret)
     IN IF r.err # ""
        THEN /\ mainPc' = "fatal"
             /\ fatal' = "Failed to initialise key"
             /\ UNCHANGED publicKey
        ELSE /\ publicKey' = r.key
             /\ mainPc' = "register"
             /\ UNCHANGED fatal
  /\ UNCHANGED <<build, env, config, redisClient, registered, warnings, inflight, call>>

\* http.HandleFunc for both paths, then go httpServer.ListenAndServe():
\* the listener binds, or fails and log.Fatalf ends the process
Register ==
  /\ mainPc = "register"
  /\ registered' = TRUE
  /\ \E listenOk \in BOOLEAN :
       /\ mainPc' = IF listenOk THEN "serving" ELSE "fatal"
       /\ fatal' = IF listenOk THEN "" ELSE "Server error"
  /\ UNCHANGED <<build, env, config, redisClient, publicKey, warnings, inflight, call>>

\* <-quit: SIGINT or SIGTERM arrives; httpServer.Shutdown closes the listener
Signal ==
  /\ mainPc = "serving"
  /\ mainPc' = "shutdown"
  /\ UNCHANGED <<build, env, fatal, config, redisClient, publicKey, registered,
                 warnings, inflight, call>>

\* httpServer.Shutdown(ctx) returns: every handler has returned, or the
\* 5 s context expired with handlers still running
ShutdownReturns ==
  /\ mainPc = "shutdown"
  /\ mainPc' = "stopped"
  /\ UNCHANGED <<build, env, fatal, config, redisClient, publicKey, registered,
                 warnings, inflight, call>>

\* the deferred server.Close() runs as main returns
Close ==
  /\ mainPc = "stopped"
  /\ redisClient' = "closed"
  /\ mainPc' = "returned"
  /\ UNCHANGED <<build, env, fatal, config, publicKey, registered, warnings, inflight, call>>

\* main has returned: the process exits and its goroutines end with it
Exit ==
  /\ mainPc = "returned"
  /\ inflight' = EmptyBag
  /\ mainPc' = "exited"
  /\ UNCHANGED <<build, env, fatal, config, redisClient, publicKey, registered,
                 warnings, call>>

-----------------------------------------------------------------------------
(* handleWebhook, one action per step of the handler *)

\* http.Error(w, text, code) / w.WriteHeader(code); w.Write(text): the
\* response is written and the handler returns
Respond(r, code, text) == [r EXCEPT !.pc = "done", !.status = code, !.respBody = text]

\* log.Printf(...) in handleWebhook: a line is written and the call
\* returns, the process goes on as it was
\* (faulty variant: the line is written with log.Fatalf, which ends the
\* process)
logFatalf(pc) == "exited"
logPrintf(pc) == pc

\* a step of handleWebhook past the method check takes r to r2; every
\* return there is preceded by a log.Printf
HandlerStep(r, r2) ==
  /\ inflight' = Replace(r, r2)
  /\ mainPc' = IF r2.pc = "done" THEN logPrintf(mainPc) ELSE mainPc

\* if r.Method != http.MethodPost { 405 }
\* (faulty variant: the method is not checked)
methodCheckAcceptAny(r) == [r EXCEPT !.pc = "read"]
methodCheck(r) ==
  IF r.method # "POST"
  THEN Respond(r, StatusMethodNotAllowed, "Method not allowed")
  ELSE [r EXCEPT !.pc = "read"]

\* the server accepts a request and starts its handler, which checks the
\* method
Accept ==
  /\ mainPc = "serving"
  /\ registered
  /\ BagCardinality(inflight) < MaxInFlight
  /\ \E m \in Methods, sig \in Signatures(build) :
       inflight' = inflight (+) SetToBag({methodCheck(NewRequest(m, sig))})
  /\ UNCHANGED <<build, env, mainPc, fatal, config, redisClient, publicKey, registered,
                 warnings, call>>

\* body, err := io.ReadAll(r.Body); on an error 400
\* (faulty variant: the body is decoded before its signature is checked)
readBodyThenDecode(r, ok, bytes) ==
  IF ~ok
  THEN Respond([r EXCEPT !.read = "err"], StatusBadRequest, "Bad request")
  ELSE [r EXCEPT !.read = "ok", !.body = bytes, !.pc = "decode"]
readBody(r, ok, bytes) ==
  IF ~ok
  THEN Respond([r EXCEPT !.read = "err"], StatusBadRequest, "Bad request")
  ELSE [r EXCEPT !.read = "ok", !.body = bytes, !.pc = "verify"]

ReadBody ==
  /\ Alive
  /\ \E r \in Requests :
       /\ r.pc = "read"
       /\ \E ok \in BOOLEAN, bytes \in Bodies :
            /\ ok \/ bytes = ""
            /\ HandlerStep(r, readBody(r, ok, bytes))
  /\ UNCHANGED <<build, env, fatal, config, redisClient, publicKey, registered,
                 warnings, call>>

\* signature := r.Header.Get("X-Hook-Signature");
\* if !s.verifySignature(body, signature) { 401 }.  A panic in the handler
\* is recovered by net/http, which drops the connection: no response.
\* (faulty variant: the result of verifySignature is not acted on)
checkSignatureIgnoringResult(r, out) ==
  [r EXCEPT !.verified = out.result, !.logged = out.logged, !.pc = "decode"]
checkSignature(r, out) ==
  CASE out.result = "true" ->
         [r EXCEPT !.verified = "true", !.logged = out.logged, !.pc = "decode"]
    [] out.result = "false" ->
         Respond([r EXCEPT !.verified = "false", !.logged = out.logged],
                 StatusUnauthorized, "Unauthorized")
    [] OTHER -> [r EXCEPT !.verified = "panic", !.pc = "done"]

Verify ==
  /\ Alive
  /\ \E r \in Requests :
       /\ r.pc = "verify"
       /\ HandlerStep(r, checkSignature(r,
            verifySignature(build, config.WebhookSecret, publicKey, r.body, r.sig)))
  /\ UNCHANGED <<build, env, fatal, config, redisClient, publicKey, registered,
                 warnings, call>>

\* var event WebhookEvent; if err := json.Unmarshal(body, &event) { 400 }
\* (faulty variant: the error of json.Unmarshal is not acted on)
decodeIgnoringError(r) ==
  [r EXCEPT !.decoded = IF Unmarshal(r.body).err THEN "err" ELSE "ok",
            !.pc = "publish"]
\* (faulty variant: no return after http.Error, the handler goes on)
decodeWithoutReturn(r) ==
  IF Unmarshal(r.body).err
  THEN [r EXCEPT !.decoded = "err", !.status = StatusBadRequest,
                 !.respBody = "Bad request", !.pc = "publish"]
  ELSE [r EXCEPT !.decoded = "ok", !.pc = "publish"]
decode(r) ==
  IF Unmarshal(r.body).err
  THEN Respond([r EXCEPT !.decoded = "err"], StatusBadRequest, "Bad request")
  ELSE [r EXCEPT !.decoded = "ok", !.pc = "publish"]

Decode ==
  /\ Alive
  /\ \E r \in Requests :
       /\ r.pc = "decode"
       /\ HandlerStep(r, decode(r))
  /\ UNCHANGED <<build, env, fatal, config, redisClient, publicKey, registered,
                 warnings, call>>

\* s.redisClient.Publish(ctx, s.config.RedisChannel, body): the channel and
\* the payload handed to the client
\* (faulty variant: the decoded event is re-encoded and sent)
publishArgsReencoded(cfg, r) ==
  [channel |-> cfg.RedisChannel, payload |-> Marshal(Unmarshal(r.body).event)]
\* (faulty variant: the body is kept in a buffer shared by the handlers)
publishArgsSharedBuffer(cfg, r) ==
  [channel |-> cfg.RedisChannel,
   payload |-> (CHOOSE q \in Requests : q.read = "ok").body]
publishArgs(cfg, r) == [channel |-> cfg.RedisChannel, payload |-> r.body]

\* ctx := context.Background(): the timeout of the context of Publish
publishContext == NoDeadline

\* the handler calls Publish and waits for the answer
\* (faulty variant: a body that another request in flight has already
\* handed to Publish is answered without a second call)
callPublishDeduplicated(cfg, r) ==
  IF \E q \in Requests : q.pubCalls > 0 /\ q.pubPayload = r.body
  THEN Respond(r, StatusOK, "OK")
  ELSE [r EXCEPT !.pc = "publishing",
                 !.deadline = publishContext,
                 !.pubCalls = r.pubCalls + 1,
                 !.pubChannel = publishArgs(cfg, r).channel,
                 !.pubPayload = publishArgs(cfg, r).payload]
callPublish(cfg, r) ==
  [r EXCEPT !.pc = "publishing",
            !.deadline = publishContext,
            !.pubCalls = r.pubCalls + 1,
            !.pubChannel = publishArgs(cfg, r).channel,
            !.pubPayload = publishArgs(cfg, r).payload]

Publish ==
  /\ Alive
  /\ \E r \in Requests :
       /\ r.pc = "publish"
       /\ inflight' = Replace(r, callPublish(config, r))
  /\ UNCHANGED <<build, env, mainPc, fatal, config, redisClient, publicKey, registered,
                 warnings, call>>

\* what the handler does with the answer of Publish: .Err() != nil gives 500,
\* otherwise 200 "OK"
\* (faulty variant: a failed Publish is tried again)
afterPublishRetry(r, ok) ==
  IF ~ok THEN [r EXCEPT !.pubResult = "err", !.pc = "publish"]
  ELSE Respond([r EXCEPT !.pubResult = "ok"], StatusOK, "OK")
afterPublish(r, ok) ==
  IF ~ok
  THEN Respond([r EXCEPT !.pubResult = "err"], StatusInternalServerError,
               "Internal server error")
  ELSE Respond([r EXCEPT !.pubResult = "ok"], StatusOK, "OK")

\* Publish returns: the bus accepted the message, or a transport error (the
\* only possible answer once the client is closed)
PublishReturns ==
  /\ Alive
  /\ \E r \in Requests :
       /\ r.pc = "publishing"
       /\ \E ok \in BOOLEAN :
            /\ ok => redisClient = "open"
            /\ HandlerStep(r, afterPublish(r, ok))
  /\ UNCHANGED <<build, env, fatal, config, redisClient, publicKey, registered,
                 warnings, call>>

\* the handler has returned and the response is on the wire: the request
\* is over
Complete ==
  /\ Alive
  /\ \E r \in BagToSet(inflight) :
       /\ r.pc = "done"
       /\ inflight' = inflight (-) SetToBag({r})
  /\ UNCHANGED <<build, env, mainPc, fatal, config, redisClient, publicKey, registered,
                 warnings, call>>

-----------------------------------------------------------------------------
(* handleHealth *)

\* a request for /health as its handler starts: the method is not looked
\* at; the handler pings the bus under a 2 s timeout and waits
NewHealthRequestNoTimeout(method) ==
  [NewRequest(method, "") EXCEPT !.path = "/health", !.pc = "pinging"]
NewHealthRequest(method) ==
  [NewRequest(method, "") EXCEPT !.path = "/health", !.pc = "pinging",
                                 !.deadline = HealthPingTimeout]

AcceptHealth ==
  /\ mainPc = "serving"
  /\ registered
  /\ BagCardinality(inflight) < MaxInFlight
  /\ \E m \in Methods :
       inflight' = inflight (+) SetToBag({NewHealthRequest(m)})
  /\ UNCHANGED <<build, env, mainPc, fatal, config, redisClient, publicKey, registered,
                 warnings, call>>

\* what the handler does with the answer of Ping: .Err() != nil gives 503,
\* otherwise 200 "OK"
\* (faulty variant: the error of the ping is not acted on)
afterPingIgnoringError(r, ok) ==
  Respond([r EXCEPT !.ping = IF ok THEN "ok" ELSE "err"], StatusOK, "OK")
afterPing(r, ok) ==
  IF ~ok
  THEN Respond([r EXCEPT !.ping = "err"], StatusServiceUnavailable,
               "Service unavailable")
  ELSE Respond([r EXCEPT !.ping = "ok"], StatusOK, "OK")

\* Ping returns: the bus answered PONG, or a transport error (the only
\* possible answer once the client is closed)
PingReturns ==
  /\ Alive
  /\ \E r \in HealthRequests :
       /\ r.pc = "pinging"
       /\ \E ok \in BOOLEAN :
            /\ ok => redisClient = "open"
            /\ inflight' = Replace(r, afterPing(r, ok))
  /\ UNCHANGED <<build, env, mainPc, fatal, config, redisClient, publicKey, registered,
                 warnings, call>>

\* the context of the ping expires before the bus has answered: Ping
\* returns context.DeadlineExceeded
PingTimeout ==
  /\ Alive
  /\ \E r \in HealthRequests :
       /\ r.pc = "pinging"
       /\ r.deadline > 0
       /\ inflight' = Replace(r, afterPing(r, FALSE))
  /\ UNCHANGED <<build, env, mainPc, fatal, config, redisClient, publicKey, registered,
                 warnings, call>>

-----------------------------------------------------------------------------
(* The service *)

Next ==
  \/ LoadConfig
  \/ NewServer
  \/ InitialiseKey
  \/ Register
  \/ Signal
  \/ ShutdownReturns
  \/ Close
  \/ Exit
  \/ Accept
  \/ ReadBody
  \/ Verify
  \/ Decode
  \/ Publish
  \/ PublishReturns
  \/ AcceptHealth
  \/ PingReturns
  \/ PingTimeout
  \/ Complete

Spec == Init /\ [][Next]_vars

\* the program when only /health requests arrive.  The runtime fires the
\* timer of a context.WithTimeout that is still waited on, which is weak
\* fairness of PingTimeout; the bus answering (PingReturns), new requests
\* and the operator's signal carry no fairness.
HealthNext ==
  \/ LoadConfig
  \/ NewServer
  \/ InitialiseKey
  \/ Register
  \/ Signal
  \/ ShutdownReturns
  \/ Close
  \/ Exit
  \/ AcceptHealth
  \/ PingReturns
  \/ PingTimeout
  \/ Complete

HealthSpec == Init /\ [][HealthNext]_vars /\ WF_vars(PingTimeout)

-----------------------------------------------------------------------------
(* verifySignature called directly on a Server value, as the unit tests do *)
(* (TestVerifySignature, TestVerifySignatureNoSecret): the Server is a     *)
(* struct literal holding only a Config, or one on which initialiseKey    *)
(* has succeeded.                                                          *)

UnitInit ==
  /\ build \in Builds
  /\ env \in Envs
  /\ env.REDIS_CHANNEL = ""
  /\ mainPc = "unit"
  /\ fatal = ""
  /\ config = loadConfig(env)
  /\ redisClient = "none"
  /\ publicKey \in {NilKey}
       \cup (IF build = "rsa" THEN {initialiseKey(loadConfig(env).WebhookSecret).key}
             ELSE {})
  /\ registered = FALSE
  /\ warnings = 0
  /\ inflight = EmptyBag
  /\ call = NoCall

CallVerifySignature ==
  /\ mainPc = "unit"
  /\ \E payload \in Bodies, signature \in AllSignatures :
       call' = [made |-> TRUE, payload |-> payload, signature |-> signature,
                out |-> verifySignature(build, config.WebhookSecret, publicKey,
                                        payload, signature)]
  /\ UNCHANGED <<build, env, mainPc, fatal, config, redisClient, publicKey, registered,
                 warnings, inflight>>

UnitNext == CallVerifySignature

UnitSpec == UnitInit /\ [][UnitNext]_vars

-----------------------------------------------------------------------------
(* loadConfig called in any environment, as TestLoadConfig and TestGetEnv *)
(* do: the process is at the first statement of main.                     *)

ConfigInit ==
  /\ build \in Builds
  /\ env \in ConfigEnvs
  /\ mainPc = "loadConfig"
  /\ fatal = ""
  /\ config = NoConfig
  /\ redisClient = "none"
  /\ publicKey = NilKey
  /\ registered = FALSE
  /\ warnings = 0
  /\ inflight = EmptyBag
  /\ call = NoCall

ConfigNext == LoadConfig

ConfigSpec == ConfigInit /\ [][ConfigNext]_vars

-----------------------------------------------------------------------------
(* Properties *)

\* the signature the sender derives for body under the key the server is
\* configured with
ExpectedSignature(body) ==
  IF build = "hmac"
  THEN Base64Encode(HmacSha512(config.WebhookSecret, body))
  ELSE Base64Encode(SignPKCS1v15(publicKey, Sha256(body)))

\* C1: fail-closed authentication.  A request for which Publish was called
\* had its signature check return true; with a non-empty secret that means
\* its header is the signature of the body it published, and a request whose
\* check returned false (its header is not that signature) has ended with
\* 401 and without a Publish call.
C1_FailClosed ==
  \A r \in Requests :
    /\ r.pubCalls > 0 => r.verified = "true"
    /\ (config.WebhookSecret # "" /\ r.pubCalls > 0)
         => r.sig = ExpectedSignature(r.body)
    /\ (config.WebhookSecret # "" /\ r.read = "ok" /\ r.pc # "verify"
          /\ r.sig # ExpectedSignature(r.body))
         => /\ r.verified = "false"
            /\ r.pc = "done"
            /\ r.status = StatusUnauthorized
            /\ r.pubCalls = 0

C1_Witness ==
  \E r \in Requests :
    /\ config.WebhookSecret # ""
    /\ r.method = "POST"
    /\ r.sig = "invalid-signature"
    /\ r.verified = "false"
    /\ r.status = StatusUnauthorized

\* C2: a POST whose body was read, whose signature verified and whose body
\* decoded has Publish called exactly once, on the configured channel, with
\* the bytes that were read; when the bus accepts it the response is 200
\* with body "OK".
C2_PublishRawBody ==
  \A r \in Requests :
    /\ (r.read = "ok" /\ r.verified = "true" /\ r.decoded = "ok"
          /\ r.pc \in {"publishing", "done"})
         => /\ r.pubCalls = 1
            /\ r.pubChannel = getEnv(env, "REDIS_CHANNEL", "starling_events")
            /\ r.pubPayload = r.body
    /\ r.pubResult = "ok"
         => /\ r.read = "ok" /\ r.verified = "true" /\ r.decoded = "ok"
            /\ r.pc = "done"
            /\ r.status = StatusOK
            /\ r.respBody = "OK"

C2_Witness ==
  \E r \in Requests :
    /\ r.body = BodyPing
    /\ Marshal(Unmarshal(r.body).event) # r.body
    /\ r.pubResult = "ok"
    /\ r.pubPayload = BodyPing
    /\ r.status = StatusOK

\* C3: the signature check comes before JSON decoding.  A body is decoded
\* only after its signature check returned true, and a POST with a wrong
\* signature (secret configured) and a body that is not JSON ends with 401,
\* not with 400.
C3_VerifyBeforeDecode ==
  \A r \in Requests :
    /\ r.decoded # "none" => r.verified = "true"
    /\ r.pc \in {"decode", "publish", "publishing"} => r.verified = "true"
    /\ (config.WebhookSecret # "" /\ r.pc = "done" /\ r.read = "ok"
          /\ r.sig # ExpectedSignature(r.body) /\ Unmarshal(r.body).err)
         => r.status = StatusUnauthorized /\ r.decoded = "none"

C3_Witness ==
  \E r \in Requests :
    /\ config.WebhookSecret # ""
    /\ r.body = BodyInvalidJSON
    /\ r.sig = "invalid-signature"
    /\ r.pc = "done"
    /\ r.status = StatusUnauthorized
    /\ r.decoded = "none"

\* C4: symmetric verification.  In the hmac build with a non-empty secret K,
\* verifySignature(P, S) is true exactly when S is base64(HMAC-SHA512(K, P));
\* "invalid-signature" is rejected.
C4_HmacVerifyCorrect ==
  (build = "hmac" /\ call.made /\ config.WebhookSecret # "")
    => /\ call.out.result \in {"true", "false"}
       /\ call.out.result = "true"
            <=> call.signature =
                  Base64Encode(HmacSha512(config.WebhookSecret, call.payload))
       /\ call.signature = "invalid-signature" => call.out.result = "false"

C4_Witness ==
  /\ build = "hmac"
  /\ call.made
  /\ config.WebhookSecret = "test-secret"
  /\ call.payload = BodyTest
  /\ call.signature = Base64Encode(HmacSha512("test-secret", BodyTest))
  /\ call.out.result = "true"

\* C5: disabled mode.  With an empty secret verifySignature returns true for
\* every payload and every signature, the empty one included, and uses no
\* key.
C5_DisabledAcceptsAll ==
  (call.made /\ config.WebhookSecret = "")
    => call.out.result = "true" /\ ~call.out.keyUsed

C5_Witness ==
  /\ call.made
  /\ config.WebhookSecret = ""
  /\ call.signature = ""
  /\ call.out.result = "true"

\* C6: open mode is reachable from startup.  Started with WEBHOOK_SECRET
\* unset or empty, the process is not ended by a failure to initialise the
\* key: once the bus has answered the startup ping, startup goes on to
\* register the handlers.
C6_OpenModeStarts ==
  env.WEBHOOK_SECRET = "" => fatal # "Failed to initialise key"

\* C7: misconfiguration is fatal at startup.  In the rsa build, key material
\* that is not base64, not a DER public key or not an RSA key ends the
\* process before the handlers are registered, and whenever the handlers are
\* registered or a request is being handled the server holds the RSA key
\* that the secret encodes.
UsableKeyMaterial(secret) ==
  /\ ~Base64Decode(secret).err
  /\ ~ParsePKIXPublicKey(Base64Decode(secret).bytes).err
  /\ ParsePKIXPublicKey(Base64Decode(secret).bytes).kind = "rsa"

C7_BadKeyIsFatal ==
  build = "rsa" =>
    /\ (registered \/ Requests # {})
         => /\ UsableKeyMaterial(config.WebhookSecret)
            /\ publicKey # NilKey
            /\ publicKey = ParsePKIXPublicKey(Base64Decode(config.WebhookSecret).bytes).id
    /\ (mainPc \notin {"loadConfig", "NewServer", "initialiseKey"}
          /\ fatal # "Failed to create server"
          /\ ~UsableKeyMaterial(config.WebhookSecret))
         => /\ mainPc = "fatal"
            /\ fatal = "Failed to initialise key"
            /\ ~registered
            /\ Requests = {}

C7_Witness ==
  /\ build = "rsa"
  /\ config.WebhookSecret = SecretEcKey
  /\ mainPc = "fatal"
  /\ fatal = "Failed to initialise key"
  /\ ~registered

\* C8: method check.  A request whose method is not POST has ended with 405
\* and nothing else was done for it: no body read, no signature check, no
\* decoding, no Publish.
C8_MethodNotAllowed ==
  \A r \in Requests :
    r.method # "POST"
      => /\ r.pc = "done"
         /\ r.status = StatusMethodNotAllowed
         /\ r.read = "none"
         /\ r.verified = "none"
         /\ r.decoded = "none"
         /\ r.pubCalls = 0

C8_Witness ==
  \E r \in Requests :
    r.method = "GET" /\ r.pc = "done" /\ r.status = StatusMethodNotAllowed

\* C9: malformed input.  A POST whose body could not be read, or whose body
\* passed the signature check (also with no secret) and is not a JSON
\* envelope, ends with 400 and without a Publish call.
C9_MalformedIsBadRequest ==
  \A r \in Requests :
    /\ r.read = "err"
         => r.pc = "done" /\ r.status = StatusBadRequest /\ r.pubCalls = 0
              /\ r.verified = "none"
    /\ (r.verified = "true" /\ r.pc # "decode" /\ Unmarshal(r.body).err)
         => r.pc = "done" /\ r.status = StatusBadRequest /\ r.pubCalls = 0

C9_Witness ==
  \E r \in Requests :
    /\ config.WebhookSecret = ""
    /\ r.body = BodyInvalidJSON
    /\ r.verified = "true"
    /\ r.decoded = "err"
    /\ r.status = StatusBadRequest

\* C10: publish failure.  When Publish returns an error the request ends
\* with 500, and no request ever has more than one Publish call.
C10_PublishErrorNoRetry ==
  \A r \in Requests :
    /\ r.pubCalls <= 1
    /\ r.pubResult = "err"
         => r.pc = "done" /\ r.status = StatusInternalServerError /\ r.pubCalls = 1

C10_Witness ==
  \E r \in Requests :
    /\ r.pubResult = "err"
    /\ r.pubCalls = 1
    /\ r.status = StatusInternalServerError

\* C11: bounded publish.  The Publish call of the webhook handler runs
\* under a context with a timeout, so a bus that never answers cannot hold
\* the handler: a handler waiting in Publish has a deadline after which it
\* answers 500.
C11_PublishHasTimeout ==
  \A r \in Requests : r.pc = "publishing" => r.deadline > 0

\* C12: graceful shutdown ordering.  The bus client is closed only after
\* every handler has returned: in no state is the client closed while a
\* handler is still running.
C12_CloseAfterHandlers ==
  redisClient = "closed" => \A r \in BagToSet(inflight) : r.pc = "done"

\* C13: health check mapping.  A /health request ends with 200 "OK" when
\* the ping succeeded and with 503 when it failed or timed out, whatever
\* its method; its handler reads no body, checks no signature, decodes
\* nothing and never calls Publish.
C13_HealthMapping ==
  \A r \in HealthRequests :
    /\ r.pc \in {"pinging", "done"}
    /\ r.pc = "pinging" <=> r.ping = "none"
    /\ r.ping = "ok" => r.status = StatusOK /\ r.respBody = "OK"
    /\ r.ping = "err" => r.status = StatusServiceUnavailable
    /\ r.ping = "none" => r.status = 0
    /\ r.pubCalls = 0 /\ r.pubResult = "none" /\ r.pubPayload = ""
    /\ r.read = "none" /\ r.verified = "none" /\ r.decoded = "none"

C13_Witness ==
  \E r1, r2 \in HealthRequests :
    /\ r1.ping = "ok" /\ r1.status = StatusOK /\ r1.respBody = "OK"
    /\ r2.ping = "err" /\ r2.status = StatusServiceUnavailable


\* every slot of the server is taken by a /health request waiting on its ping
AllPinging ==
  /\ BagCardinality(inflight) = MaxInFlight
  /\ \A r \in BagToSet(inflight) : r.path = "/health" /\ r.pc = "pinging"

NonePinging == \A r \in HealthRequests : r.pc # "pinging"

C15_VerifyNeverLogs ==
  /\ warnings <= 1
  /\ \A r \in Requests : ~r.logged

\* C16: malformed signatures are ordinary negative results.  Called with a
\* non-empty secret, verifySignature returns true or false for every
\* payload and every signature string, and false for a signature that is
\* not base64; it never panics.
C16_VerifyNeverPanics ==
  call.made /\ config.WebhookSecret # "" =>
    /\ call.out.result \in {"true", "false"}
    /\ Base64Decode(call.signature).err => call.out.result = "false"

\* C17: no empty-input bypass.  With a secret configured, a request is let
\* past the signature check exactly when its header is the signature of
\* its body, the empty header and the empty body included; a request
\* without the header is answered 401 and nothing is published for it.
C17_NoEmptyBypass ==
  config.WebhookSecret # "" =>
    \A r \in Requests :
      r.verified # "none" =>
        /\ r.verified = "true" <=> r.sig = ExpectedSignature(r.body)
        /\ r.sig = "" =>
             /\ r.verified = "false"
             /\ r.pc = "done" /\ r.status = StatusUnauthorized
             /\ r.pubCalls = 0

\* a POST with an empty body and no signature header has been answered 401
C17_Witness ==
  /\ config.WebhookSecret # ""
  /\ \E r \in Requests :
       /\ r.method = "POST" /\ r.read = "ok" /\ r.body = BodyEmpty /\ r.sig = ""
       /\ r.status = StatusUnauthorized /\ r.pubCalls = 0

\* Publish calls made for the requests in flight, every copy of a request
\* counted
PublishCalls ==
  BagCardinality([r \in {q \in Requests : q.pubCalls > 0} |->
                    r.pubCalls * CopiesIn(r, inflight)])

\* requests in flight that passed the method check, the body read, the
\* signature check and the decode, and have gone through the Publish step
PassedRequests ==
  BagCardinality([r \in {q \in Requests : q.decoded = "ok" /\ q.pc # "publish"} |->
                    CopiesIn(r, inflight)])

\* C18: no deduplication across requests.  The Publish calls made are as
\* many as the requests that passed the method check, body read, signature
\* check and decode: one call for each such request, carrying its body,
\* and none for any other, however many equal requests are in flight.
C18_NoDeduplication ==
  /\ PublishCalls = PassedRequests
  /\ \A r \in Requests :
       /\ r.pubCalls = (IF r.decoded = "ok" /\ r.pc # "publish" THEN 1 ELSE 0)
       /\ r.pubCalls = 1 => r.pubPayload = r.body

\* the same valid request delivered twice: two Publish calls with the same
\* bytes, both accepted by the bus
C18_Witness ==
  /\ PublishCalls = MaxInFlight
  /\ \E r \in Requests :
       /\ CopiesIn(r, inflight) = MaxInFlight
       /\ r.pubCalls = 1 /\ r.pubResult = "ok" /\ r.pubPayload = BodyTest
       /\ r.status = StatusOK

\* a request has reached its terminal outcome in this step
RequestEnds ==
  \E r \in BagToSet(inflight') :
    r.pc = "done" /\ CopiesIn(r, inflight') > CopiesIn(r, inflight)

\* C19: no state carried across requests.  A step in which handleWebhook or
\* handleHealth ends a request, with whatever outcome, leaves the
\* configuration, the verification key, the bus client and the registered
\* handlers as they were and the process in the state of its life it was
\* in: nothing a later request reads has changed, and the server goes on.
C19_NoStateCarried ==
  [][RequestEnds =>
       /\ config' = config /\ publicKey' = publicKey
       /\ redisClient' = redisClient /\ registered' = registered
       /\ mainPc' = mainPc /\ fatal' = fatal /\ env' = env /\ build' = build]_vars

\* a request that failed in Publish and a request that was published have
\* both been answered, and the server is still serving
C19_Witness ==
  /\ mainPc = "serving" /\ redisClient = "open"
  /\ \E r1, r2 \in Requests :
       /\ r1.pc = "done" /\ r1.status = StatusInternalServerError
       /\ r2.pc = "done" /\ r2.status = StatusOK

\* the status handleWebhook gives a request handled alone, from the
\* request's own method, body and signature header and the answers its own
\* read and its own Publish got
StatusAlone(r) ==
  IF r.method # "POST" THEN StatusMethodNotAllowed
  ELSE IF r.read = "err" THEN StatusBadRequest
  ELSE IF r.sig # ExpectedSignature(r.body) /\ config.WebhookSecret # ""
       THEN StatusUnauthorized
  ELSE IF Unmarshal(r.body).err THEN StatusBadRequest
  ELSE IF r.pubResult = "err" THEN StatusInternalServerError
  ELSE StatusOK

\* C20: concurrent requests do not interfere.  With several webhook
\* requests in flight in any interleaving, every answered request has the
\* status it would get handled alone, and what was handed to Publish for a
\* request is that request's own body on the configured channel.
C20_NoInterference ==
  \A r \in Requests :
    /\ r.pc = "done" => r.status = StatusAlone(r)
    /\ r.pubCalls > 0 =>
         /\ r.pubPayload = r.body /\ r.pubChannel = config.RedisChannel
         /\ r.sig = ExpectedSignature(r.body) \/ config.WebhookSecret = ""

\* two requests with different bodies were in flight together: one was
\* published with its own body, the other, correctly signed, was answered
\* 400 for its malformed body
C20_Witness ==
  \E r1, r2 \in Requests :
    /\ r1.pc = "done" /\ r1.status = StatusOK /\ r1.pubPayload = BodyTest
    /\ r2.pc = "done" /\ r2.status = StatusBadRequest
    /\ r2.body = BodyInvalidJSON /\ r2.verified = "true"
    /\ config.WebhookSecret # ""

\* what the README documents for a variable: its value when it is set to
\* a non-empty string, its default otherwise
Documented(key, default) ==
  IF env[key] \notin {Unset, ""} THEN env[key] ELSE default

\* C21: configuration defaults.  After loadConfig every field holds the
\* value of its variable when that is set and not empty, and its default
\* otherwise, a variable set to the empty string counting as unset; the
\* port, the bus address and the channel are never empty, the secret is
\* empty when its variable is unset or empty.
C21_ConfigDefaults ==
  mainPc # "loadConfig" =>
    /\ config.Port = Documented("PORT", "8080")
    /\ config.RedisAddr = Documented("REDIS_ADDR", "localhost:6379")
    /\ config.RedisChannel = Documented("REDIS_CHANNEL", "starling_events")
    /\ config.WebhookSecret = Documented("WEBHOOK_SECRET", "")
    /\ config.Port # "" /\ config.RedisAddr # "" /\ config.RedisChannel # ""
    /\ config.Port # Unset /\ config.RedisAddr # Unset
    /\ config.RedisChannel # Unset /\ config.WebhookSecret # Unset

\* loadConfig has run with PORT set to the empty string, REDIS_ADDR unset,
\* REDIS_CHANNEL set and WEBHOOK_SECRET unset
C21_Witness ==
  /\ mainPc # "loadConfig"
  /\ env.PORT = "" /\ config.Port = "8080"
  /\ env.REDIS_ADDR = Unset /\ config.RedisAddr = "localhost:6379"
  /\ env.REDIS_CHANNEL = "test" /\ config.RedisChannel = "test"
  /\ env.WEBHOOK_SECRET = Unset /\ config.WebhookSecret = ""

\* the steps of the pipeline a request with this outcome has been through,
\* and no other
OutcomeOf(r) ==
  CASE r.status = StatusMethodNotAllowed ->
         r.read = "none" /\ r.verified = "none" /\ r.decoded = "none" /\ r.pubCalls = 0
    [] r.status = StatusBadRequest ->
         \/ r.read = "err" /\ r.verified = "none" /\ r.decoded = "none" /\ r.pubCalls = 0
         \/ r.read = "ok" /\ r.verified = "true" /\ r.decoded = "err" /\ r.pubCalls = 0
    [] r.status = StatusUnauthorized ->
         r.read = "ok" /\ r.verified = "false" /\ r.decoded = "none" /\ r.pubCalls = 0
    [] r.status = StatusInternalServerError ->
         r.decoded = "ok" /\ r.pubCalls = 1 /\ r.pubResult = "err"
    [] r.status = StatusOK ->
         r.decoded = "ok" /\ r.pubCalls = 1 /\ r.pubResult = "ok"
    [] OTHER -> FALSE

\* a webhook request that has its response is changed by this step
AnsweredRequestChanges ==
  \E r \in Requests :
    /\ r.status # 0
    /\ CopiesIn(r, inflight') < CopiesIn(r, inflight)
    /\ BagCardinality(inflight') >= BagCardinality(inflight)

\* C22: single terminal outcome.  A webhook request has a response status
\* exactly when its handler has returned; the status is one of 200, 400,
\* 401, 405, 500 and the request has been through the steps before that
\* outcome and through none after it; a request that has its status is
\* never changed again, it only leaves.
C22_SingleOutcome ==
  /\ [](\A r \in Requests :
          /\ r.status # 0 <=> r.pc = "done"
          /\ r.pc = "done" => OutcomeOf(r))
  /\ [][~AnsweredRequestChanges]_vars

\* a request with a well-formed body was answered 401 and nothing further
\* was done for it, while another was answered 500 after its Publish failed
C22_Witness ==
  \E r1, r2 \in Requests :
    /\ r1.pc = "done" /\ r1.status = StatusUnauthorized /\ r1.body = BodyTest
    /\ r1.decoded = "none" /\ r1.pubCalls = 0
    /\ r2.pc = "done" /\ r2.status = StatusInternalServerError /\ r2.pubCalls = 1

\* C23: startup connection gate.  The handlers are registered, the server
\* listens and requests are served only with a bus client whose startup
\* ping succeeded; when the startup ping failed or timed out the process
\* has ended with no Server, no handler registered and no request accepted.
C23_StartupGate ==
  /\ (registered \/ Alive \/ inflight # EmptyBag) => redisClient \in {"open", "closed"}
  /\ mainPc \in {"initialiseKey", "register"} => redisClient = "open"
  /\ fatal = "Failed to create server" =>
       /\ mainPc = "fatal" /\ redisClient = "none"
       /\ ~registered /\ inflight = EmptyBag
  /\ mainPc = "fatal" => inflight = EmptyBag

\* the startup ping failed: the process has ended before registering
C23_Witness ==
  /\ fatal = "Failed to create server" /\ mainPc = "fatal"
  /\ redisClient = "none" /\ ~registered
  /\ config = loadConfig(env)

=============================================================================
